---- MODULE Spec2Model ----
(***************************************************************************)
(* Model of src/src/replace.py: TemplateRenderer.cal_render_position and   *)
(* PptProcessor.replace_paragraph_runs with its two helpers                *)
(* _copy_non_placeholder and _allocate_rendered_value.                     *)
(*                                                                         *)
(* A Python str is a sequence of one-character strings.  Offsets are the   *)
(* 0-based offsets of the code; Slice(s, a, b) is the Python slice s[a:b]. *)
(* Run indices are 1-based (the code's idx + 1).                           *)
(***************************************************************************)
EXTENDS Integers, Sequences, FiniteSets, TLC

VARIABLES
    runs,                \* paragraph.runs: the text of each run, in run order
    context,             \* TemplateRenderer.context
    pc,                  \* position of the call in progress
    text_position_list,  \* replace_paragraph_runs: the run slots
    all_text,            \* the concatenated source text
    rendered_text,       \* cal_render_position: first component of the result
    placeholder_list,    \* cal_render_position: second component of the result
    new_texts,           \* replace_paragraph_runs: accumulated new run texts
    current_pos,         \* replace_paragraph_runs: end of the last occurrence
    ph_i,                \* index of the next occurrence of the for loop (line 80)
    current,             \* _copy_non_placeholder: loop variable
    end,                 \* _copy_non_placeholder: parameter end
    copy_log,            \* history: every append of line 102, in order
    alloc_log,           \* history: every append of line 130, in order
    written,             \* history: indices of the runs assigned at line 89
    runs0                \* history: the run texts before the call

vars == <<runs, context, pc, text_position_list, all_text, rendered_text,
          placeholder_list, new_texts, current_pos, ph_i, current, end,
          copy_log, alloc_log, written, runs0>>

(***************************************************************************)
(* Bounds of the model.                                                    *)
(***************************************************************************)
\* Spec: longest paragraph text and largest number of runs
MaxParaLen == 11
MaxRuns == 3
\* SpecAlloc: longest paragraph text, largest number of runs, longest value
MaxLen == 7
MaxSlots == 4
MaxVal == 3
\* SpecRender: largest number of tokens of a text
MaxTok == 6

Min2(a, b) == IF a < b THEN a ELSE b
Max2(a, b) == IF a > b THEN a ELSE b

\* s[a:b] of Python for 0 <= a, 0 <= b: both ends are clipped to len(s)
Slice(s, a, b) == SubSeq(s, Min2(a, Len(s)) + 1, Min2(b, Len(s)))

\* ''.join(seq) of Python
RECURSIVE Join(_)
Join(ss) == IF ss = <<>> THEN <<>> ELSE Head(ss) \o Join(Tail(ss))

(***************************************************************************)
(* TemplateRenderer                                                        *)
(***************************************************************************)
IsOpen(t, i) == i + 2 <= Len(t) /\ t[i + 1] = "{" /\ t[i + 2] = "{"
IsClose(t, j) == j + 2 <= Len(t) /\ t[j + 1] = "}" /\ t[j + 2] = "}"

\* The offsets j at which "}}" can close a match of \{\{(.+?)}} opened at s:
\* group 1 (.+) holds at least one character and "." matches no line break.
Closers(t, s) ==
    {j \in (s + 3)..(Len(t) - 2) :
        IsClose(t, j) /\ \A k \in (s + 2)..(j - 1) : t[k + 1] # "\n"}

SetMin(S) == CHOOSE x \in S : \A y \in S : x <= y
SetMax(S) == CHOOSE x \in S : \A y \in S : x >= y

\* PLACEHOLDER_PATTERN.match at offset s: match.end(), or -1 when there is no
\* match at s.  The quantifier +? is lazy: the nearest closer wins.
MatchEndGreedy(t, s) ==
    IF IsOpen(t, s) /\ Closers(t, s) # {} THEN SetMax(Closers(t, s)) + 2 ELSE -1
MatchEnd(t, s) ==
    IF IsOpen(t, s) /\ Closers(t, s) # {} THEN SetMin(Closers(t, s)) + 2 ELSE -1

\* PLACEHOLDER_PATTERN.finditer(t) from offset pos: the matches, leftmost first,
\* each search resuming at the end of the previous match.
RECURSIVE FindIter(_, _)
FindIter(t, pos) ==
    LET starts == {s \in pos..(Len(t) - 1) : MatchEnd(t, s) # -1}
    IN  IF starts = {} THEN <<>>
        ELSE LET s == SetMin(starts)
                 e == MatchEnd(t, s)
             IN  <<[start |-> s, end |-> e]>> \o FindIter(t, e)

Whitespace == {" ", "\n"}

\* str.strip()
RECURSIVE LStrip(_)
LStrip(s) == IF s # <<>> /\ Head(s) \in Whitespace THEN LStrip(Tail(s)) ELSE s
RECURSIVE RStrip(_)
RStrip(s) ==
    IF s # <<>> /\ s[Len(s)] \in Whitespace
    THEN RStrip(SubSeq(s, 1, Len(s) - 1)) ELSE s
Strip(s) == RStrip(LStrip(s))

\* str(v): a context value is a str or a non-negative int
Digit(d) == CASE d = 0 -> "0" [] d = 1 -> "1" [] d = 2 -> "2" [] d = 3 -> "3"
              [] d = 4 -> "4" [] d = 5 -> "5" [] d = 6 -> "6" [] d = 7 -> "7"
              [] d = 8 -> "8" [] d = 9 -> "9"
RECURSIVE IntStr(_)
IntStr(n) == IF n < 10 THEN <<Digit(n)>> ELSE IntStr(n \div 10) \o <<Digit(n % 10)>>
Str(v) == IF v.kind = "int" THEN IntStr(v.n) ELSE v.s

StrVal(s) == [kind |-> "str", s |-> s]
IntVal(n) == [kind |-> "int", n |-> n]

\* self.context.get(key, '')
ContextGetQuestion(ctx, key) == IF key \in DOMAIN ctx THEN ctx[key] ELSE StrVal(<<"?">>)
ContextGet(ctx, key) == IF key \in DOMAIN ctx THEN ctx[key] ELSE StrVal(<<>>)

\* the dict appended at lines 35-42
OccurrenceNoShift(t, m, rendered_so_far, ctx) ==
    LET placeholder_text == Strip(Slice(t, m.start + 2, m.end - 2))
        rendered_value == Str(ContextGet(ctx, placeholder_text))
    IN  [original_start |-> m.start,
         original_length |-> m.end - m.start,
         rendered_start |-> m.start,
         rendered_length |-> Len(rendered_value),
         placeholder |-> placeholder_text,
         rendered_value |-> rendered_value]
Occurrence(t, m, rendered_so_far, ctx) ==
    LET placeholder_text == Strip(Slice(t, m.start + 2, m.end - 2))
        rendered_value == Str(ContextGet(ctx, placeholder_text))
    IN  [original_start |-> m.start,
         original_length |-> m.end - m.start,
         rendered_start |-> Len(rendered_so_far),
         rendered_length |-> Len(rendered_value),
         placeholder |-> placeholder_text,
         rendered_value |-> rendered_value]

\* the for loop of lines 27-44 from match i on, then line 46
RECURSIVE RenderLoop(_, _, _, _, _, _, _)
RenderLoop(ctx, t, ms, i, rtext, last_end, plist) ==
    IF i > Len(ms)
    THEN [rendered_text |-> rtext \o Slice(t, last_end, Len(t)),
          placeholder_list |-> plist]
    ELSE LET m == ms[i]
             rt1 == rtext \o Slice(t, last_end, m.start)
             occ == Occurrence(t, m, rt1, ctx)
         IN  RenderLoop(ctx, t, ms, i + 1, rt1 \o occ.rendered_value, m.end,
                        Append(plist, occ))

cal_render_position(ctx, t) == RenderLoop(ctx, t, FindIter(t, 0), 1, <<>>, 0, <<>>)

(***************************************************************************)
(* PptProcessor                                                            *)
(***************************************************************************)
RECURSIVE SumLen(_, _)
SumLen(rs, n) == IF n = 0 THEN 0 ELSE SumLen(rs, n - 1) + Len(rs[n])

\* lines 60-69: the slot of each run
TextPositionListGapped(rs) ==
    [i \in 1..Len(rs) |-> [start |-> SumLen(rs, i - 1) + (i - 1), len |-> Len(rs[i])]]
TextPositionList(rs) ==
    [i \in 1..Len(rs) |-> [start |-> SumLen(rs, i - 1), len |-> Len(rs[i])]]

\* line 99: the slots the for loop of _copy_non_placeholder can stop at
CopyHits(tpl, cur) ==
    {idx \in 1..Len(tpl) :
        tpl[idx].start + tpl[idx].len > cur /\ cur >= tpl[idx].start}

\* line 101
RemainingNoClip(e, cur, run_end) == e - cur
Remaining(e, cur, run_end) == Min2(e - cur, run_end - cur)

\* lines 109-119: covered_runs as a sequence of <<idx, part_len>>, from slot i on
RECURSIVE CoveredFrom(_, _, _, _)
CoveredFrom(tpl, orig_start, orig_end, i) ==
    IF i > Len(tpl) THEN <<>>
    ELSE LET run_start == tpl[i].start
             run_end == run_start + tpl[i].len
             rest == CoveredFrom(tpl, orig_start, orig_end, i + 1)
         IN  IF run_end > orig_start /\ run_start < orig_end
             THEN <<[idx |-> i,
                     part_len |-> Min2(run_end, orig_end) - Max2(run_start, orig_start)]>>
                  \o rest
             ELSE rest
RECURSIVE CoveredFromContained(_, _, _, _)
CoveredFromContained(tpl, orig_start, orig_end, i) ==
    IF i > Len(tpl) THEN <<>>
    ELSE LET run_start == tpl[i].start
             run_end == run_start + tpl[i].len
             rest == CoveredFromContained(tpl, orig_start, orig_end, i + 1)
         IN  IF run_start >= orig_start /\ run_end <= orig_end
             THEN <<[idx |-> i,
                     part_len |-> Min2(run_end, orig_end) - Max2(run_start, orig_start)]>>
                  \o rest
             ELSE rest
CoveredRunsContained(tpl, orig_start, orig_end) ==
    CoveredFromContained(tpl, orig_start, orig_end, 1)
CoveredRuns(tpl, orig_start, orig_end) == CoveredFrom(tpl, orig_start, orig_end, 1)

RECURSIVE TotalCovered(_)
TotalCovered(cov) == IF cov = <<>> THEN 0 ELSE Head(cov).part_len + TotalCovered(Tail(cov))

\* round(num / den) of Python 3 for num >= 0, den > 0: to nearest, ties to even.
\* The code rounds the double part_len / total * rend_len; the two agree for
\* every total <= 21 and value length <= 10, which covers the bounds here.
PyRoundFloor(num, den) == num \div den
PyRound(num, den) ==
    LET q == num \div den
        r == num % den
    IN  IF 2 * r > den THEN q + 1
        ELSE IF 2 * r < den THEN q
        ELSE IF q % 2 = 0 THEN q ELSE q + 1

\* line 129
AllocLenAlwaysRound(cov, i, total, rend_len, allocated) ==
    PyRound(cov[i].part_len * rend_len, total)
AllocLen(cov, i, total, rend_len, allocated) ==
    IF i < Len(cov)
    THEN PyRound(cov[i].part_len * rend_len, total)
    ELSE rend_len - allocated

\* line 130: rend_value[allocated:allocated + alloc_len]
PieceAbsoluteEnd(rend_value, allocated, alloc_len) ==
    Slice(rend_value, allocated, alloc_len)
Piece(rend_value, allocated, alloc_len) ==
    Slice(rend_value, allocated, allocated + alloc_len)

\* lines 126-131 from covered run i on: the appends made, in order
RECURSIVE AllocLoop(_, _, _, _, _, _)
AllocLoop(cov, total, rend_value, rend_len, i, allocated) ==
    IF i > Len(cov) THEN <<>>
    ELSE LET alloc_len == AllocLen(cov, i, total, rend_len, allocated)
         IN  <<[idx |-> cov[i].idx,
                alloc_len |-> alloc_len,
                piece |-> Piece(rend_value, allocated, alloc_len)]>>
             \o AllocLoop(cov, total, rend_value, rend_len, i + 1,
                          allocated + alloc_len)

\* _allocate_rendered_value: the appends it makes to new_texts, in order
AllocateRenderedValue(tpl, ph, orig_start, orig_end) ==
    LET cov == CoveredRuns(tpl, orig_start, orig_end)
        total_covered_len == TotalCovered(cov)
    IN  IF total_covered_len = 0 THEN <<>>
        ELSE AllocLoop(cov, total_covered_len, ph.rendered_value,
                       ph.rendered_length, 1, 0)

\* new_texts after the appends of a sequence of [idx, piece] records
RECURSIVE ApplyAppends(_, _)
ApplyAppends(nt, apps) ==
    IF apps = <<>> THEN nt
    ELSE ApplyAppends([nt EXCEPT ![Head(apps).idx] = @ \o Head(apps).piece],
                      Tail(apps))

\* the next call of _copy_non_placeholder (line 82 or line 86) after i occurrences
NextCopyEnd(plist, i, t) ==
    IF i <= Len(plist) THEN plist[i].original_start ELSE Len(t)

(***************************************************************************)
(* Actions                                                                 *)
(***************************************************************************)
\* replace_paragraph_runs, lines 60-78, up to the first call of line 82 or 86
BeginNoReturn ==
    /\ pc = "start"
    /\ LET tpl == TextPositionList(runs)
           t == Join(runs)
           r == cal_render_position(context, t)
       IN  /\ text_position_list' = tpl
           /\ all_text' = t
           /\ rendered_text' = r.rendered_text
           /\ placeholder_list' = r.placeholder_list
           /\ pc' = "copy"
           /\ new_texts' = [i \in 1..Len(runs) |-> <<>>]
           /\ current' = 0
           /\ end' = NextCopyEnd(r.placeholder_list, 1, t)
    /\ current_pos' = 0
    /\ ph_i' = 1
    /\ UNCHANGED <<runs, context, copy_log, alloc_log, written, runs0>>
Begin ==
    /\ pc = "start"
    /\ LET tpl == TextPositionList(runs)
           t == Join(runs)
           r == cal_render_position(context, t)
       IN  /\ text_position_list' = tpl
           /\ all_text' = t
           /\ rendered_text' = r.rendered_text
           /\ placeholder_list' = r.placeholder_list
           /\ IF r.placeholder_list = <<>>
              THEN /\ pc' = "done"
                   /\ UNCHANGED <<new_texts, current, end>>
              ELSE /\ pc' = "copy"
                   /\ new_texts' = [i \in 1..Len(runs) |-> <<>>]
                   /\ current' = 0
                   /\ end' = NextCopyEnd(r.placeholder_list, 1, t)
    /\ current_pos' = 0
    /\ ph_i' = 1
    /\ UNCHANGED <<runs, context, copy_log, alloc_log, written, runs0>>

\* _copy_non_placeholder: one iteration of the while loop (lines 95-104).  When
\* the for loop finds no slot, nothing changes and the while loop repeats.
CopyStep ==
    /\ pc = "copy"
    /\ current < end
    /\ LET hits == CopyHits(text_position_list, current)
       IN  IF hits = {}
           THEN UNCHANGED <<new_texts, current, copy_log>>
           ELSE LET idx == SetMin(hits)
                    run_end == text_position_list[idx].start
                               + text_position_list[idx].len
                    remaining == Remaining(end, current, run_end)
                    piece == Slice(all_text, current, current + remaining)
                IN  /\ new_texts' = [new_texts EXCEPT ![idx] = @ \o piece]
                    /\ current' = current + remaining
                    /\ copy_log' = Append(copy_log,
                           [idx |-> idx, from |-> current, piece |-> piece])
    /\ UNCHANGED <<runs, context, pc, text_position_list, all_text, rendered_text,
                   placeholder_list, current_pos, ph_i, end, alloc_log, written,
                   runs0>>

\* replace_paragraph_runs, lines 83-84 for occurrence ph_i, up to the next call
\* of _copy_non_placeholder (line 82 for the next occurrence, else line 86)
Allocate ==
    /\ pc = "copy"
    /\ current >= end
    /\ ph_i <= Len(placeholder_list)
    /\ LET ph == placeholder_list[ph_i]
           orig_start == ph.original_start
           orig_end == orig_start + ph.original_length
           apps == AllocateRenderedValue(text_position_list, ph, orig_start, orig_end)
       IN  /\ current_pos' = orig_end
           /\ new_texts' = ApplyAppends(new_texts, apps)
           /\ alloc_log' = alloc_log
                  \o [k \in 1..Len(apps) |->
                        [ph |-> ph_i, idx |-> apps[k].idx,
                         alloc_len |-> apps[k].alloc_len,
                         piece |-> apps[k].piece]]
           /\ current' = orig_end
           /\ end' = NextCopyEnd(placeholder_list, ph_i + 1, all_text)
    /\ ph_i' = ph_i + 1
    /\ UNCHANGED <<runs, context, pc, text_position_list, all_text, rendered_text,
                   placeholder_list, copy_log, written, runs0>>

\* replace_paragraph_runs, lines 88-89, after the call of line 86 returned
Commit ==
    /\ pc = "copy"
    /\ current >= end
    /\ ph_i > Len(placeholder_list)
    /\ runs' = new_texts
    /\ written' = 1..Len(new_texts)
    /\ pc' = "done"
    /\ UNCHANGED <<context, text_position_list, all_text, rendered_text,
                   placeholder_list, new_texts, current_pos, ph_i, current, end,
                   copy_log, alloc_log, runs0>>

\* a call of cal_render_position on its own
Render ==
    /\ pc = "render"
    /\ LET r == cal_render_position(context, all_text)
       IN  /\ rendered_text' = r.rendered_text
           /\ placeholder_list' = r.placeholder_list
    /\ pc' = "rendered"
    /\ UNCHANGED <<runs, context, text_position_list, all_text, new_texts,
                   current_pos, ph_i, current, end, copy_log, alloc_log, written,
                   runs0>>

(***************************************************************************)
(* Inputs                                                                  *)
(***************************************************************************)
RECURSIVE Rep(_, _)
Rep(c, n) == IF n = 0 THEN <<>> ELSE <<c>> \o Rep(c, n - 1)

\* the k runs that cutting t at the offsets c[1] <= ... <= c[k-1] gives; equal
\* cuts give empty runs
IsCuts(c, k, n) == \A i \in 1..(k - 2) : c[i] <= c[i + 1]
CutAt(c, k, n, i) == IF i = 0 THEN 0 ELSE IF i = k THEN n ELSE c[i]
RunsOfCuts(t, c, k) ==
    [i \in 1..k |-> Slice(t, CutAt(c, k, Len(t), i - 1), CutAt(c, k, Len(t), i))]

\* runs is t cut into at most kmax runs, empty runs included
IsFragmentation(rs, t, kmax) ==
    \E k \in 1..kmax : \E c \in [1..(k - 1) -> 0..Len(t)] :
        IsCuts(c, k, Len(t)) /\ rs = RunsOfCuts(t, c, k)

PhA == <<"{", "{", "a", "}", "}">>
PhB == <<"{", "{", " ", "b", "}", "}">>
Segments == {PhA, PhB, <<"a">>}

\* the texts made of segments, of length at most n
RECURSIVE SegTexts(_)
SegTexts(n) ==
    IF n < 0 THEN {}
    ELSE {<<>>} \cup UNION {{s \o t : t \in SegTexts(n - Len(s))} : s \in Segments}

Value(n) == SubSeq(<<"x", "y", "z", "w", "v", "u">>, 1, n)

Contexts ==
    { <<>>,
      (<<"a">> :> StrVal(Value(3))),
      (<<"a">> :> IntVal(12)) @@ (<<"b">> :> StrVal(Value(1))) }

Blank ==
    /\ text_position_list = <<>>
    /\ rendered_text = <<>>
    /\ placeholder_list = <<>>
    /\ new_texts = <<>>
    /\ current_pos = 0
    /\ ph_i = 1
    /\ current = 0
    /\ end = 0
    /\ copy_log = <<>>
    /\ alloc_log = <<>>
    /\ written = {}

\* a paragraph of segments cut into at most MaxRuns runs, before the call
Init ==
    /\ \E t \in SegTexts(MaxParaLen) : IsFragmentation(runs, t, MaxRuns)
    /\ context \in Contexts
    /\ runs0 = runs
    /\ pc = "start"
    /\ all_text = <<>>
    /\ Blank

Next == Begin \/ CopyStep \/ Allocate \/ Commit

Spec == Init /\ [][Next]_vars

\* SpecAlloc: "{{" + a..a + "}}" between paddings of "a" (no match when the
\* braces hold nothing), cut into at most MaxSlots runs; every key maps to the
\* same value
AllocTexts ==
    {Rep("a", pre) \o <<"{", "{">> \o Rep("a", k) \o <<"}", "}">> \o Rep("a", post) :
        <<pre, k, post>> \in
            {x \in (0..MaxLen) \X (0..MaxLen) \X (0..MaxLen) :
                x[1] + x[2] + x[3] + 4 <= MaxLen}}

AllocContexts ==
    {[key \in {Rep("a", k) : k \in 1..MaxLen} |-> StrVal(Value(n))] : n \in 0..MaxVal}

InitAlloc ==
    /\ \E t \in AllocTexts : IsFragmentation(runs, t, MaxSlots)
    /\ context \in AllocContexts
    /\ runs0 = runs
    /\ pc = "start"
    /\ all_text = <<>>
    /\ Blank

SpecAlloc == InitAlloc /\ [][Next]_vars

\* SpecRender: cal_render_position on every text of at most MaxTok tokens
Tokens == {<<"{", "{">>, <<"}", "}">>, <<"}">>, <<"a">>, <<" ">>, <<"\n">>}

RenderContexts ==
    { (<<"a">> :> StrVal(Value(3))),
      (<<"a">> :> IntVal(12)) @@ (<<>> :> StrVal(Value(1))) }

InitRender ==
    /\ \E n \in 0..MaxTok : \E ts \in [1..n -> Tokens] : all_text = Join(ts)
    /\ runs = <<all_text>>
    /\ runs0 = runs
    /\ context \in RenderContexts
    /\ pc = "render"
    /\ Blank

NextRender == Render

SpecRender == InitRender /\ [][NextRender]_vars

(***************************************************************************)
(* Vocabulary of the properties.  It is stated over the run texts before   *)
(* the call (runs0), the occurrences returned and the two histories, not   *)
(* over the operators of the model.                                        *)
(***************************************************************************)
NOcc == Len(placeholder_list)
Occ(k) == placeholder_list[k]
OccStart(k) == Occ(k).original_start
OccEnd(k) == Occ(k).original_start + Occ(k).original_length
SourceText == Join(runs0)

\* the slot of run i in the source text
RunStart0(i) == SumLen(runs0, i - 1)
RunEnd0(i) == RunStart0(i) + Len(runs0[i])

InSomeSpan(p) == \E k \in 1..NOcc : OccStart(k) <= p /\ p < OccEnd(k)

\* the characters of run i that lie outside every placeholder span, from its
\* p-th character on
RECURSIVE GapFrom(_, _)
GapFrom(i, p) ==
    IF p > Len(runs0[i]) THEN <<>>
    ELSE (IF InSomeSpan(RunStart0(i) + p - 1) THEN <<>> ELSE <<runs0[i][p]>>)
         \o GapFrom(i, p + 1)
GapChars(i) == GapFrom(i, 1)

RECURSIVE CatPieces(_)
CatPieces(log) == IF log = <<>> THEN <<>> ELSE Head(log).piece \o CatPieces(Tail(log))

\* what the gap copies appended to run i, and what the distribution of
\* occurrence k appended (to run i)
CopiedTo(i) == CatPieces(SelectSeq(copy_log, LAMBDA e : e.idx = i))
AllocEntries(k) == SelectSeq(alloc_log, LAMBDA e : e.ph = k)
AllocatedTo(k, i) == CatPieces(SelectSeq(alloc_log, LAMBDA e : e.ph = k /\ e.idx = i))
AllAllocatedTo(i) == CatPieces(SelectSeq(alloc_log, LAMBDA e : e.idx = i))

\* the occurrences, once the call has returned and every distribution step
\* is in alloc_log
Distributed == IF pc = "done" THEN 1..NOcc ELSE {}

Overlap(i, k) ==
    Max2(0, Min2(RunEnd0(i), OccEnd(k)) - Max2(RunStart0(i), OccStart(k)))
RECURSIVE OverlapUpTo(_, _)
OverlapUpTo(k, i) == IF i = 0 THEN 0 ELSE OverlapUpTo(k, i - 1) + Overlap(i, k)
TotalOverlap(k) == OverlapUpTo(k, Len(runs0))

\* r is num / den rounded to the nearest integer, a tie going to the even one
RoundsTo(r, num, den) ==
    LET d == IF r * den >= num THEN r * den - num ELSE num - r * den
    IN  2 * d < den \/ (2 * d = den /\ r % 2 = 0)

\* round(overlap / total overlap * value length) for the j-th entry of occurrence k
Nominal(k, j) ==
    CHOOSE r \in 0..Occ(k).rendered_length :
        RoundsTo(r, Overlap(AllocEntries(k)[j].idx, k) * Occ(k).rendered_length,
                 TotalOverlap(k))
RECURSIVE NominalBefore(_, _)
NominalBefore(k, j) ==
    IF j <= 1 THEN 0 ELSE NominalBefore(k, j - 1) + Nominal(k, j - 1)

\* the entries of occurrence k name, in ascending order, the slots it overlaps
EntriesAreOverlappingSlots(k) ==
    LET E == AllocEntries(k)
    IN  /\ \A j \in 1..(Len(E) - 1) : E[j].idx < E[j + 1].idx
        /\ {E[j].idx : j \in 1..Len(E)} =
               {i \in 1..Len(runs0) :
                    RunEnd0(i) > OccStart(k) /\ RunStart0(i) < OccEnd(k)}

(***************************************************************************)
(* C1: when replace_paragraph_runs has returned, the run texts joined in   *)
(* run order are the renderedText that cal_render_position returns for the *)
(* joined run texts before the call, whatever the fragmentation.           *)
(***************************************************************************)
C1_JoinIsRendered ==
    pc = "done" =>
        /\ Len(runs) = Len(runs0)
        /\ Join(runs) = cal_render_position(context, SourceText).rendered_text

C1_Witness ==
    /\ pc = "done"
    /\ NOcc = 2
    /\ \E i \in 1..Len(runs0) : runs0[i] = <<>>
    /\ \E k \in 1..NOcc : Len(AllocEntries(k)) >= 2 /\ Occ(k).rendered_length > 0
    /\ Join(runs) # SourceText

(***************************************************************************)
(* C2: for every occurrence, the pieces _allocate_rendered_value appended  *)
(* to the overlapping runs, joined in run order, are rendered_value.       *)
(***************************************************************************)
C2_PiecesAreValue ==
    \A k \in Distributed :
        /\ CatPieces(AllocEntries(k)) = Occ(k).rendered_value
        /\ \A j \in 1..(Len(AllocEntries(k)) - 1) :
               AllocEntries(k)[j].idx < AllocEntries(k)[j + 1].idx

\* the rounded allocations of the non-last slots exceed the value's length
C2_Witness ==
    \E k \in Distributed :
        /\ Len(AllocEntries(k)) >= 4
        /\ NominalBefore(k, Len(AllocEntries(k))) > Occ(k).rendered_length
        /\ CatPieces(AllocEntries(k)) = Occ(k).rendered_value

(***************************************************************************)
(* C3: when the joined run texts hold no placeholder match, the call       *)
(* leaves every run's text as it was and writes no run text.               *)
(***************************************************************************)
C3_NoMatchNoWrite ==
    (pc = "done" /\ cal_render_position(context, SourceText).placeholder_list = <<>>) =>
        /\ runs = runs0
        /\ written = {}
        /\ copy_log = <<>>
        /\ alloc_log = <<>>

C3_Witness ==
    /\ pc = "done"
    /\ placeholder_list = <<>>
    /\ Len(runs0) >= 3
    /\ \E p \in 1..Len(SourceText) : SourceText[p] = "{"
    /\ runs = runs0

(***************************************************************************)
(* C4: a placeholder whose trimmed key is not in the context has the empty *)
(* string as rendered_value and 0 as rendered_length, nothing is placed    *)
(* for it in any run, and when no key is in the context the rendered text  *)
(* and every run keep exactly the characters outside the placeholder spans *)
(* (no run disappears).                                                    *)
(***************************************************************************)
C4_MissingKeyIsEmpty ==
    /\ pc = "done" =>
           \A k \in 1..NOcc :
               Occ(k).placeholder \notin DOMAIN context =>
                   /\ Occ(k).rendered_value = <<>>
                   /\ Occ(k).rendered_length = 0
                   /\ \A j \in 1..Len(AllocEntries(k)) : AllocEntries(k)[j].piece = <<>>
    /\ (pc = "done" /\ NOcc > 0 /\ DOMAIN context = {}) =>
           /\ Len(runs) = Len(runs0)
           /\ \A i \in 1..Len(runs0) : runs[i] = GapChars(i)
           /\ rendered_text = Join([i \in 1..Len(runs0) |-> GapChars(i)])

\* a non-empty run wholly inside a placeholder with a missing key ends empty
C4_Witness ==
    /\ pc = "done"
    /\ \E k \in 1..NOcc : \E i \in 1..Len(runs0) :
           /\ Occ(k).placeholder \notin DOMAIN context
           /\ runs0[i] # <<>>
           /\ OccStart(k) < RunStart0(i) /\ RunEnd0(i) < OccEnd(k)
           /\ runs[i] = <<>>
           /\ i \in written

(***************************************************************************)
(* C7: a placeholder whose span lies within one run's slot has the whole   *)
(* of its value placed in that run and nothing of it in any other run.     *)
(***************************************************************************)
C7_SingleRunPlacement ==
    \A k \in Distributed : \A i \in 1..Len(runs0) :
        (RunStart0(i) <= OccStart(k) /\ OccEnd(k) <= RunEnd0(i)) =>
            /\ AllocatedTo(k, i) = Occ(k).rendered_value
            /\ \A j \in 1..Len(AllocEntries(k)) :
                   AllocEntries(k)[j].idx # i => AllocEntries(k)[j].piece = <<>>
            /\ Len(runs[i]) = Len(GapChars(i)) + Len(AllAllocatedTo(i))

\* empty runs sit at both ends of a placeholder that lies within one run
C7_Witness ==
    /\ pc = "done"
    /\ \E k \in 1..NOcc : \E i, j1, j2 \in 1..Len(runs0) :
           /\ RunStart0(i) <= OccStart(k) /\ OccEnd(k) <= RunEnd0(i)
           /\ Occ(k).rendered_length > 0
           /\ runs[i] = Occ(k).rendered_value
           /\ runs0[j1] = <<>> /\ RunStart0(j1) = OccStart(k)
           /\ runs0[j2] = <<>> /\ RunStart0(j2) = OccEnd(k)

(***************************************************************************)
(* C8: with at least one placeholder, every source character outside the   *)
(* placeholder spans is copied once, in order, into the run it came from.  *)
(***************************************************************************)
C8_GapTextStaysInItsRun ==
    (pc = "done" /\ NOcc > 0) =>
        /\ \A i \in 1..Len(runs0) : CopiedTo(i) = GapChars(i)
        /\ \A j \in 1..Len(copy_log) :
               LET e == copy_log[j]
               IN  /\ RunStart0(e.idx) <= e.from
                   /\ e.from + Len(e.piece) <= RunEnd0(e.idx)
                   /\ e.piece = Slice(SourceText, e.from, e.from + Len(e.piece))
        /\ \A i \in 1..Len(runs0) :
               Len(runs[i]) = Len(GapChars(i)) + Len(AllAllocatedTo(i))

\* a gap runs over a run boundary, a placeholder is split over two runs and
\* a gap trails
C8_Witness ==
    /\ pc = "done"
    /\ NOcc > 0
    /\ OccEnd(NOcc) < Len(SourceText)
    /\ \E k \in 1..NOcc : Len(AllocEntries(k)) >= 2
    /\ \E j \in 1..(Len(copy_log) - 1) :
           /\ copy_log[j].idx # copy_log[j + 1].idx
           /\ copy_log[j + 1].from = copy_log[j].from + Len(copy_log[j].piece)

(***************************************************************************)
(* C9: the allocation of the value to the overlapping slots.               *)
(***************************************************************************)
\* C9 as claimed: every overlapping slot but the last receives exactly
\* round(overlap / total overlap * value length) characters from the next
\* unallocated prefix, and the last receives the remainder, value length minus
\* the earlier allocations, which is not negative.
C9_AsClaimed ==
    \A k \in Distributed :
        LET E == AllocEntries(k)
            L == Occ(k).rendered_length
        IN  /\ EntriesAreOverlappingSlots(k)
            /\ \A j \in 1..Len(E) :
                   IF j < Len(E)
                   THEN /\ Len(E[j].piece) = Nominal(k, j)
                        /\ E[j].piece = Slice(Occ(k).rendered_value, NominalBefore(k, j),
                                              NominalBefore(k, j) + Nominal(k, j))
                   ELSE /\ L - NominalBefore(k, j) >= 0
                        /\ Len(E[j].piece) = L - NominalBefore(k, j)

\* C9 amended: every overlapping slot but the last is allotted round(overlap /
\* total overlap * value length) characters and receives that many from the
\* next unallocated prefix, or only those that are left when fewer are; the
\* last receives what is left, max(0, value length - earlier allotments).
C9_AllotmentsClipped ==
    \A k \in Distributed :
        LET E == AllocEntries(k)
            L == Occ(k).rendered_length
        IN  /\ EntriesAreOverlappingSlots(k)
            /\ \A j \in 1..Len(E) :
                   LET A == NominalBefore(k, j)
                   IN  IF j < Len(E)
                       THEN /\ E[j].alloc_len = Nominal(k, j)
                            /\ Len(E[j].piece) = Min2(Nominal(k, j), Max2(0, L - A))
                            /\ E[j].piece = Slice(Occ(k).rendered_value, A,
                                                  A + Nominal(k, j))
                       ELSE /\ E[j].alloc_len = L - A
                            /\ Len(E[j].piece) = Max2(0, L - A)
                            /\ E[j].piece = Slice(Occ(k).rendered_value, A, L)

\* an allotment is cut short and the code's remainder is negative
C9_Witness ==
    \E k \in Distributed :
        LET E == AllocEntries(k)
        IN  /\ Len(E) >= 3
            /\ E[Len(E)].alloc_len < 0
            /\ \E j \in 1..(Len(E) - 1) : Len(E[j].piece) < E[j].alloc_len
            /\ \E j \in 1..(Len(E) - 1) : Len(E[j].piece) > 0

(***************************************************************************)
(* C5: the occurrences cal_render_position finds.                          *)
(***************************************************************************)
BraceOpenAt(t, p) == p >= 0 /\ p + 2 <= Len(t) /\ t[p + 1] = "{" /\ t[p + 2] = "{"
BraceCloseAt(t, p) == p >= 0 /\ p + 2 <= Len(t) /\ t[p + 1] = "}" /\ t[p + 2] = "}"

\* c without its leading and trailing whitespace
TrimmedKey(c) ==
    LET solid == {i \in 1..Len(c) : c[i] \notin {" ", "\n"}}
    IN  IF solid = {} THEN <<>>
        ELSE SubSeq(c, CHOOSE i \in solid : \A j \in solid : i <= j,
                       CHOOSE i \in solid : \A j \in solid : i >= j)

\* the scan of the claim: the next "{{" is closed by the first "}}" after it
RECURSIVE ClaimedScan(_, _)
ClaimedScan(t, pos) ==
    LET opens == {p \in pos..(Len(t) - 2) : BraceOpenAt(t, p)}
    IN  IF opens = {} THEN <<>>
        ELSE LET st == CHOOSE p \in opens : \A q \in opens : p <= q
                 closes == {j \in (st + 2)..(Len(t) - 2) : BraceCloseAt(t, j)}
             IN  IF closes = {} THEN <<>>
                 ELSE LET j == CHOOSE x \in closes : \A y \in closes : x <= y
                      IN  <<[start |-> st, end |-> j + 2,
                             key |-> TrimmedKey(Slice(t, st + 2, j))]>>
                          \o ClaimedScan(t, j + 2)

FoundSpans ==
    [k \in 1..NOcc |->
        [start |-> OccStart(k), end |-> OccEnd(k), key |-> Occ(k).placeholder]]

\* C5 as claimed: the occurrences are the spans of the scan in which the first
\* "}}" after a "{{" closes it, whatever lies between.
C5_AsClaimed == pc = "rendered" => FoundSpans = ClaimedScan(all_text, 0)

\* a "}}" at j can close a "{{" at st: at least one character lies between and
\* no line break does
ValidCloser(t, st, j) ==
    /\ j >= st + 3
    /\ BraceCloseAt(t, j)
    /\ \A p \in (st + 2)..(j - 1) : t[p + 1] # "\n"

\* C5 amended: a placeholder starts at the next "{{", not inside a previous
\* match, that some "}}" can close (one that begins at least one character
\* after it with no line break between) and is closed by the first such "}}";
\* the key is the content trimmed; a "{{" that no "}}" can close yields no
\* occurrence, and with no occurrence the text is rendered as it is.
C5_LazyNonEmptyScan ==
    pc = "rendered" =>
        /\ \A k \in 1..NOcc :
               /\ BraceOpenAt(all_text, OccStart(k))
               /\ ValidCloser(all_text, OccStart(k), OccEnd(k) - 2)
               /\ \A j \in (OccStart(k) + 3)..(OccEnd(k) - 3) :
                      ~ValidCloser(all_text, OccStart(k), j)
               /\ Occ(k).placeholder =
                      TrimmedKey(Slice(all_text, OccStart(k) + 2, OccEnd(k) - 2))
        /\ \A k \in 1..(NOcc - 1) : OccEnd(k) <= OccStart(k + 1)
        /\ \A p \in 0..(Len(all_text) - 1) :
               (BraceOpenAt(all_text, p) /\ ~InSomeSpan(p)) =>
                   \A j \in 0..(Len(all_text) - 1) : ~ValidCloser(all_text, p, j)
        /\ NOcc = 0 => rendered_text = all_text

\* a match whose content begins with "}}" and is trimmed, followed by a "{{"
\* that nothing closes
C5_Witness ==
    /\ pc = "rendered"
    /\ \E k \in 1..NOcc :
           /\ BraceCloseAt(all_text, OccStart(k) + 2)
           /\ Len(Occ(k).placeholder) < Occ(k).original_length - 4
    /\ \E p \in 0..(Len(all_text) - 1) : BraceOpenAt(all_text, p) /\ ~InSomeSpan(p)

(***************************************************************************)
(* C6: the result of cal_render_position: the occurrences ascend without   *)
(* overlap, renderedText is the source with each span replaced by its      *)
(* rendered_value and the rest copied, each rendered span holds its value  *)
(* and starts at original_start plus the growth of the earlier             *)
(* occurrences, and with no match the list is empty and the text unchanged.*)
(***************************************************************************)
RECURSIVE Growth(_)
Growth(k) ==
    IF k = 0 THEN 0
    ELSE Growth(k - 1) + Occ(k).rendered_length - Occ(k).original_length
RenderedEnd(k) == IF k = 0 THEN 0 ELSE Occ(k).rendered_start + Occ(k).rendered_length
OccEnd0(k) == IF k = 0 THEN 0 ELSE OccEnd(k)

C6_RenderedLayout ==
    pc = "done" =>
        /\ \A k \in 1..NOcc :
               /\ OccEnd0(k - 1) <= OccStart(k)
               /\ Occ(k).original_length > 0
               /\ OccEnd(k) <= Len(all_text)
               /\ Occ(k).rendered_length = Len(Occ(k).rendered_value)
               /\ Occ(k).rendered_start = OccStart(k) + Growth(k - 1)
               /\ Slice(rendered_text, Occ(k).rendered_start, RenderedEnd(k))
                      = Occ(k).rendered_value
               /\ Slice(rendered_text, RenderedEnd(k - 1), Occ(k).rendered_start)
                      = Slice(all_text, OccEnd0(k - 1), OccStart(k))
        /\ Slice(rendered_text, RenderedEnd(NOcc), Len(rendered_text))
               = Slice(all_text, OccEnd0(NOcc), Len(all_text))
        /\ Len(rendered_text) = Len(all_text) + Growth(NOcc)
        /\ (\A p \in 0..(Len(all_text) - 1) : ~BraceOpenAt(all_text, p)) =>
               (NOcc = 0 /\ rendered_text = all_text)

\* two occurrences around a gap, the second shifted by the first one's growth
C6_Witness ==
    /\ pc = "done"
    /\ NOcc = 2
    /\ OccEnd(1) < OccStart(2)
    /\ Occ(1).rendered_length \notin {0, Occ(1).original_length}
    /\ Occ(2).rendered_length > 0
    /\ Occ(2).rendered_start # OccStart(2)

(***************************************************************************)
(* C10: replace_paragraph_runs terminates: in every iteration of the while *)
(* loop of _copy_non_placeholder some slot holds the current offset, which *)
(* then grows, never beyond end; every step of the call lowers a measure   *)
(* that is a natural number, so the call returns.                          *)
(***************************************************************************)
CopyPending == pc = "copy" /\ current < end
SlotHoldsCurrent ==
    \E i \in 1..Len(text_position_list) :
        /\ text_position_list[i].start <= current
        /\ current < text_position_list[i].start + text_position_list[i].len

\* occurrences still to distribute, then characters still to pass
Measure ==
    CASE pc = "start" -> (Len(Join(runs)) + 2) * (Len(Join(runs)) + 2)
      [] pc = "copy" -> (NOcc + 1 - ph_i) * (Len(all_text) + 2)
                        + (Len(all_text) - current) + 1
      [] OTHER -> 0

C10_Terminates ==
    /\ [](/\ pc \in {"start", "copy", "done"}
          /\ Measure \in Nat
          /\ CopyPending => SlotHoldsCurrent)
    /\ [][/\ Measure' < Measure
          /\ CopyPending => (current' > current /\ current' <= end /\ end' = end)]_vars

\* the call has returned after copying gaps in a paragraph with an empty run
\* and a gap of length 0
C10_Witness ==
    /\ pc = "done"
    /\ copy_log # <<>>
    /\ \E i \in 1..Len(runs0) : runs0[i] = <<>>
    /\ \E k \in 1..NOcc : OccStart(k) = OccEnd0(k - 1)

====
